---- MODULE Spec2Model ----
(***************************************************************************)
(* Model of the two programs of the repository:                            *)
(*   - processOrder (the stripe order workflow, a promise chain), in       *)
(*     src/test/usergroup.routes.test.js lines 175-375;                    *)
(*   - getSubscriptionTrialEndDate, the pure date function of the same     *)
(*     file, lines 187-197;                                                *)
(*   - the Migration class of                                              *)
(*     src/scripts/properly_populate_transaction_fees.js.                  *)
(* Each has its own specification (Spec and ConcurrentSpec, DateSpec,      *)
(* MigrationSpec and MigrationFairSpec, and PairSpec for the functions of  *)
(* Migration called on their own) over its own variables; the variables of *)
(* the other parts stay as they are.                                       *)
(***************************************************************************)
EXTENDS Integers, Sequences, FiniteSets, TLC

(***************************************************************************)
(* Part 1: processOrder.                                                   *)
(*                                                                         *)
(* Workers run invocations of processOrder(order).  Every invocation gets  *)
(* a fresh number, which also names the gateway objects it creates (the    *)
(* customer, charge and subscription ids the gateway hands out).  0 is the *)
(* unset value (null/undefined) of an id or of a date column.              *)
(***************************************************************************)

\* Bound: invocations of processOrder over the whole run.
MaxInvocations == 2

\* The concurrent workflow instances.
Procs == {"w1", "w2"}

\* The stored orders; every order uses the one stored payment method and the
\* one host.
Orders == {"o1"}

VARIABLES
  \* ---- the store (database rows)
  pmCustomerId,      \* PaymentMethod.customerId
  pmHostCustomerId,  \* PaymentMethod.data.CustomerIdForHost[host.username]
  pmConfirmedAt,     \* PaymentMethod.confirmedAt: the invocations that set it; {} is unset
  processedAt,       \* Order.processedAt, per order: the invocations that set it; {} is unset
  orderSubscription, \* per order: whether order.subscription is supplied
  subscription,      \* per order: the Subscription row
  transactions,      \* Transaction rows: the invocation and order of each
  activities,        \* Activity rows of type SUBSCRIPTION_CONFIRMED
  backers,           \* invocations whose findOrAddUserWithRole completed
  pendingWrites,     \* writes started and not awaited (lines 237, 349)
  failedWrites,      \* such writes that the store rejected
  \* ---- the gateway
  gwCharges,         \* charges executed
  gwBalances,        \* balance transactions retrieved
  gwSubscriptions,   \* subscriptions created
  \* ---- the invocations
  nextInv,           \* number of the next invocation
  pc,                \* per worker: the step the chain is at
  inv,               \* per worker: the number of its invocation
  ord,               \* per worker: the order it processes
  customerId,        \* per worker: paymentMethod.customerId of its instance
  hostCustomerId,    \* per worker: data.CustomerIdForHost[host] of its instance
    log,               \* per worker: the steps started, in order
  failedAt,          \* per worker: the step that failed, "" if none
  \* ---- getSubscriptionTrialEndDate
  createdAt,         \* the local calendar fields order.createdAt was made from
  tz,                \* the local time zone: seconds east of UTC
  originalDate,      \* the Date object passed in: its time value
  interval,          \* subscription.interval
  trialEnd,          \* the value returned: <<n>> for a number, <<>> for null
  datePc,            \* "ready" before the call, "returned" after it
  \* ---- Migration
  table,             \* the Transactions table, in the order of the scan
  options,           \* the options of the run: batchSize, limit, dryRun
  offset,            \* this.offset
  count,             \* the count of run()
  batch,             \* the instances of the batch being paired
  idx,               \* the index i of the for loop of run()
  migrated,          \* the pairs handed to migrate(), in order
  runPc,             \* where run() is
  runError,          \* the error run() was rejected with, "" if none
  \* ---- the functions of Migration, called on their own
  given,             \* the two rows as they were read: <<tr1, tr2>>
  trs,               \* the two instances, as the calls have left them
  calls,             \* the calls made on the instances, in order
  verified           \* what verify() returned for tr1 and tr2 at the last call

orderVars == <<pmCustomerId, pmHostCustomerId, pmConfirmedAt, processedAt,
               orderSubscription, subscription, transactions, activities,
               backers, pendingWrites, failedWrites, gwCharges,
               gwBalances, gwSubscriptions, nextInv, pc, inv, ord, customerId,
               hostCustomerId, log, failedAt>>

pmVars == <<pmCustomerId, pmHostCustomerId, pmConfirmedAt>>

rowVars == <<processedAt, orderSubscription, subscription, transactions, activities, backers>>

writeVars == <<pendingWrites, failedWrites>>

gwVars == <<gwCharges, gwBalances, gwSubscriptions>>

instVars == <<nextInv, inv, ord, customerId, hostCustomerId>>

dateVars == <<createdAt, tz, originalDate, interval, trialEnd, datePc>>

pairVars == <<given, trs, calls, verified>>

migrationVars == <<table, options, offset, count, batch, idx, migrated, runPc, runError,
                   pairVars>>

otherParts == <<dateVars, migrationVars>>

vars == <<orderVars, dateVars, migrationVars>>

\* The variables of the other two parts, at rest.
DateIdle ==
  /\ createdAt = <<>> /\ tz = 0 /\ originalDate = <<>> /\ interval = ""
  /\ trialEnd = <<>> /\ datePc = "off"

MigrationIdle ==
  /\ table = <<>> /\ options = [batchSize |-> 0, limit |-> 0, dryRun |-> TRUE]
  /\ offset = 0 /\ count = 0 /\ batch = <<>> /\ idx = 0 /\ migrated = <<>>
  /\ runPc = "off" /\ runError = ""
  /\ given = <<>> /\ trs = <<>> /\ calls = <<>> /\ verified = <<>>

OrderIdle ==
  /\ pmCustomerId = 0 /\ pmHostCustomerId = 0 /\ pmConfirmedAt = {}
  /\ processedAt = [o \in Orders |-> {}]
  /\ orderSubscription = [o \in Orders |-> FALSE]
  /\ subscription = [o \in Orders |-> [stripeSubscriptionId |-> 0, status |-> "new"]]
  /\ transactions = {} /\ activities = {} /\ backers = {}
  /\ pendingWrites = {} /\ failedWrites = {}
  /\ gwCharges = {} /\ gwBalances = {} /\ gwSubscriptions = {}
  /\ nextInv = 1
  /\ pc = [p \in Procs |-> "idle"]
  /\ inv = [p \in Procs |-> 0]
  /\ ord = [p \in Procs |-> "o1"]
  /\ customerId = [p \in Procs |-> 0]
  /\ hostCustomerId = [p \in Procs |-> 0]
  /\ log = [p \in Procs |-> <<>>]
  /\ failedAt = [p \in Procs |-> ""]

\* Before any processOrder: nothing charged, nothing provisioned; each order
\* comes with or without a subscription.
Init ==
  /\ pmCustomerId = 0 /\ pmHostCustomerId = 0 /\ pmConfirmedAt = {}
  /\ processedAt = [o \in Orders |-> {}]
  /\ orderSubscription \in [Orders -> BOOLEAN]
  /\ subscription = [o \in Orders |-> [stripeSubscriptionId |-> 0, status |-> "new"]]
  /\ transactions = {} /\ activities = {} /\ backers = {}
  /\ pendingWrites = {} /\ failedWrites = {}
  /\ gwCharges = {} /\ gwBalances = {} /\ gwSubscriptions = {}
  /\ nextInv = 1
  /\ pc = [p \in Procs |-> "idle"]
  /\ inv = [p \in Procs |-> 0]
  /\ ord = [p \in Procs |-> "o1"]
  /\ customerId = [p \in Procs |-> 0]
  /\ hostCustomerId = [p \in Procs |-> 0]
  /\ log = [p \in Procs |-> <<>>]
  /\ failedAt = [p \in Procs |-> ""]
  /\ DateIdle /\ MigrationIdle

\* The chain moves worker p to step s, having started step `started`.
Goto(p, started, s) ==
  /\ pc' = [pc EXCEPT ![p] = s]
  /\ log' = [log EXCEPT ![p] = Append(@, started)]
  /\ failedAt' = failedAt

\* Step `started` of worker p is rejected: the chain skips every later
\* then/tap and processOrder's promise is rejected with that error.
Reject(p, started) ==
  /\ pc' = [pc EXCEPT ![p] = "rejected"]
  /\ log' = [log EXCEPT ![p] = Append(@, started)]
  /\ failedAt' = [failedAt EXCEPT ![p] = started]

\* processOrder(order) is called: the caller hands in an order with its
\* paymentMethod instance, read from the store (lines 205-217).
ProcessOrder(p) ==
  /\ pc[p] \in {"idle", "resolved", "rejected"}
  /\ nextInv <= MaxInvocations
  /\ \E o \in Orders : ord' = [ord EXCEPT ![p] = o]
  /\ inv' = [inv EXCEPT ![p] = nextInv]
  /\ nextInv' = nextInv + 1
  /\ customerId' = [customerId EXCEPT ![p] = pmCustomerId]
  /\ hostCustomerId' = [hostCustomerId EXCEPT ![p] = pmHostCustomerId]
  /\ pc' = [pc EXCEPT ![p] = "getHostStripeAccount"]
  /\ log' = [log EXCEPT ![p] = <<>>]
  /\ failedAt' = [failedAt EXCEPT ![p] = ""]
  /\ UNCHANGED <<pmVars, rowVars, writeVars, gwVars, otherParts>>

\* toCollective.getHostStripeAccount() (lines 336-337).
GetHostStripeAccount(p) ==
  /\ pc[p] = "getHostStripeAccount"
  /\ \E ok \in BOOLEAN :
       IF ok THEN Goto(p, "getHostStripeAccount", "platformCustomer")
             ELSE Reject(p, "getHostStripeAccount")
  /\ UNCHANGED <<pmVars, rowVars, writeVars, gwVars, instVars, otherParts>>

\* paymentMethod.customerId || stripe.createCustomer(null, token, ...)
\* (lines 340-345): the gateway is called only when the instance has no id.
\* Then the tap of lines 346-351: the instance had no customerId, so set it
\* on the instance and start paymentMethod.update({customerId}); the promise
\* of the update is not returned, so the chain goes on without it.
PlatformCustomer(p) ==
  /\ pc[p] = "platformCustomer"
  /\ IF customerId[p] # 0
       THEN /\ UNCHANGED <<customerId, pendingWrites>>
            /\ Goto(p, "platformCustomer", "createToken")
       ELSE \E ok \in BOOLEAN :
              IF ok
                THEN /\ customerId' = [customerId EXCEPT ![p] = inv[p]]
                     /\ pendingWrites' = pendingWrites \cup
                          {[field |-> "customerId", value |-> inv[p]]}
                     /\ Goto(p, "platformCustomer", "createToken")
                ELSE /\ UNCHANGED <<customerId, pendingWrites>>
                     /\ Reject(p, "platformCustomer")
  /\ UNCHANGED <<pmVars, rowVars, failedWrites, gwVars,
                 nextInv, inv, ord, hostCustomerId, otherParts>>

\* stripe.createToken(hostStripeAccount, paymentMethod.customerId)
\* (lines 354-355).
CreateToken(p) ==
  /\ pc[p] = "createToken"
  /\ \E ok \in BOOLEAN :
       IF ok THEN Goto(p, "createToken", "createCharge")
             ELSE Reject(p, "createToken")
  /\ UNCHANGED <<pmVars, rowVars, writeVars, gwVars, instVars, otherParts>>

\* CreateCharge as it would be if the Transaction row were written ahead of
\* the gateway's answer.
CreateChargeWritesAhead(p) ==
  /\ pc[p] = "createCharge"
  /\ transactions' = transactions \cup {[order |-> ord[p], by |-> inv[p]]}
  /\ \E ok \in BOOLEAN :
       IF ok THEN /\ gwCharges' = gwCharges \cup {[order |-> ord[p], by |-> inv[p]]}
                  /\ Goto(p, "createCharge", "retrieveBalanceTransaction")
             ELSE /\ gwCharges' = gwCharges
                  /\ Reject(p, "createCharge")
  /\ UNCHANGED <<pmVars, processedAt, orderSubscription, subscription, activities,
                 backers, writeVars, gwBalances, gwSubscriptions, instVars, otherParts>>

\* stripe.createCharge(hostStripeAccount, {...}) (lines 288-303).
CreateCharge(p) ==
  /\ pc[p] = "createCharge"
  /\ \E ok \in BOOLEAN :
       IF ok THEN /\ gwCharges' = gwCharges \cup {[order |-> ord[p], by |-> inv[p]]}
                  /\ Goto(p, "createCharge", "retrieveBalanceTransaction")
             ELSE /\ gwCharges' = gwCharges
                  /\ Reject(p, "createCharge")
  /\ UNCHANGED <<pmVars, rowVars, writeVars, gwBalances, gwSubscriptions,
                 instVars, otherParts>>

\* stripe.retrieveBalanceTransaction(hostStripeAccount,
\* charge.balance_transaction) (lines 304-306).
RetrieveBalanceTransaction(p) ==
  /\ pc[p] = "retrieveBalanceTransaction"
  /\ \E ok \in BOOLEAN :
       IF ok THEN /\ gwBalances' = gwBalances \cup {[order |-> ord[p], by |-> inv[p]]}
                  /\ Goto(p, "retrieveBalanceTransaction", "createFromPayload")
             ELSE /\ gwBalances' = gwBalances
                  /\ Reject(p, "retrieveBalanceTransaction")
  /\ UNCHANGED <<pmVars, rowVars, writeVars, gwCharges, gwSubscriptions,
                 instVars, otherParts>>

\* models.Transaction.createFromPayload(payload) (lines 307-332), then the
\* choice of line 362: the subscription protocol only when order.subscription
\* is supplied.
CreateFromPayload(p) ==
  /\ pc[p] = "createFromPayload"
  /\ \E ok \in BOOLEAN :
       IF ok THEN /\ transactions' = transactions \cup {[order |-> ord[p], by |-> inv[p]]}
                  /\ Goto(p, "createFromPayload",
                          IF orderSubscription[ord[p]] THEN "getOrCreatePlan"
                                                       ELSE "findOrAddUserWithRole")
             ELSE /\ transactions' = transactions
                  /\ Reject(p, "createFromPayload")
  /\ UNCHANGED <<pmVars, processedAt, orderSubscription, subscription, activities,
                 backers, writeVars, gwVars, instVars, otherParts>>

\* stripe.getOrCreatePlan(hostStripeAccount, {...}) (lines 242-249).
GetOrCreatePlan(p) ==
  /\ pc[p] = "getOrCreatePlan"
  /\ \E ok \in BOOLEAN :
       IF ok THEN Goto(p, "getOrCreatePlan", "getOrCreateCustomerIdForHost")
             ELSE Reject(p, "getOrCreatePlan")
  /\ UNCHANGED <<pmVars, rowVars, writeVars, gwVars, instVars, otherParts>>

\* getOrCreateCustomerIdForHost (lines 225-228): the cached id of the
\* instance, or else stripe.createToken on the host account.
GetOrCreateCustomerIdForHost(p) ==
  /\ pc[p] = "getOrCreateCustomerIdForHost"
  /\ IF hostCustomerId[p] # 0
       THEN Goto(p, "getOrCreateCustomerIdForHost", "stripeCreateSubscription")
       ELSE \E ok \in BOOLEAN :
              IF ok THEN Goto(p, "getOrCreateCustomerIdForHost", "hostCreateCustomer")
                    ELSE Reject(p, "getOrCreateCustomerIdForHost")
  /\ UNCHANGED <<pmVars, rowVars, writeVars, gwVars, instVars, otherParts>>

\* stripe.createCustomer(hostStripeAccount, token.id, ...) (lines 229-233),
\* then the tap of lines 234-238: put the new id in the instance's data and
\* start paymentMethod.save(); its promise is not returned.
HostCreateCustomer(p) ==
  /\ pc[p] = "hostCreateCustomer"
  /\ \E ok \in BOOLEAN :
       IF ok THEN /\ hostCustomerId' = [hostCustomerId EXCEPT ![p] = inv[p]]
                  /\ pendingWrites' = pendingWrites \cup
                       {[field |-> "data", value |-> inv[p]]}
                  /\ pc' = [pc EXCEPT ![p] = "stripeCreateSubscription"]
                  /\ UNCHANGED <<log, failedAt>>
             ELSE /\ UNCHANGED <<hostCustomerId, pendingWrites>>
                  /\ pc' = [pc EXCEPT ![p] = "rejected"]
                  /\ failedAt' = [failedAt EXCEPT ![p] = "getOrCreateCustomerIdForHost"]
                  /\ log' = log
  /\ UNCHANGED <<pmVars, rowVars, failedWrites, gwVars,
                 nextInv, inv, ord, customerId, otherParts>>

\* StripeCreateSubscription as it would be if the rejection were caught:
\* the chain of processOrder goes on with the role grant.
StripeCreateSubscriptionCaught(p) ==
  /\ pc[p] = "stripeCreateSubscription"
  /\ \E ok \in BOOLEAN :
       IF ok THEN /\ gwSubscriptions' = gwSubscriptions \cup
                                          {[order |-> ord[p], by |-> inv[p]]}
                  /\ Goto(p, "stripeCreateSubscription", "subscriptionUpdate")
             ELSE /\ gwSubscriptions' = gwSubscriptions
                  /\ pc' = [pc EXCEPT ![p] = "findOrAddUserWithRole"]
                  /\ log' = [log EXCEPT ![p] = Append(@, "stripeCreateSubscription")]
                  /\ failedAt' = [failedAt EXCEPT ![p] = "stripeCreateSubscription"]
  /\ UNCHANGED <<pmVars, rowVars, writeVars, gwCharges, gwBalances,
                 instVars, otherParts>>

\* stripe.createSubscription(hostStripeAccount, hostStripeCustomerId, {...})
\* (lines 255-267).
StripeCreateSubscription(p) ==
  /\ pc[p] = "stripeCreateSubscription"
  /\ \E ok \in BOOLEAN :
       IF ok THEN /\ gwSubscriptions' = gwSubscriptions \cup
                                          {[order |-> ord[p], by |-> inv[p]]}
                  /\ Goto(p, "stripeCreateSubscription", "subscriptionUpdate")
             ELSE /\ gwSubscriptions' = gwSubscriptions
                  /\ Reject(p, "stripeCreateSubscription")
  /\ UNCHANGED <<pmVars, rowVars, writeVars, gwCharges, gwBalances,
                 instVars, otherParts>>

\* SubscriptionUpdate as it would be if the update were started and not
\* waited for: the chain activates the Subscription whatever the update does.
SubscriptionUpdateNotAwaited(p) ==
  /\ pc[p] = "subscriptionUpdate"
  /\ \E ok \in BOOLEAN :
       /\ subscription' = IF ok THEN [subscription EXCEPT
                                        ![ord[p]].stripeSubscriptionId = inv[p]]
                                ELSE subscription
       /\ Goto(p, "subscriptionUpdate", "subscriptionActivate")
  /\ UNCHANGED <<pmVars, processedAt, orderSubscription, transactions, activities,
                 backers, writeVars, gwVars, instVars, otherParts>>

\* subscription.update({ stripeSubscriptionId }) (line 268).
SubscriptionUpdate(p) ==
  /\ pc[p] = "subscriptionUpdate"
  /\ \E ok \in BOOLEAN :
       IF ok THEN /\ subscription' = [subscription EXCEPT
                                        ![ord[p]].stripeSubscriptionId = inv[p]]
                  /\ Goto(p, "subscriptionUpdate", "subscriptionActivate")
             ELSE /\ subscription' = subscription
                  /\ Reject(p, "subscriptionUpdate")
  /\ UNCHANGED <<pmVars, processedAt, orderSubscription, transactions, activities,
                 backers, writeVars, gwVars, instVars, otherParts>>

\* subscription.activate() (line 269).
SubscriptionActivate(p) ==
  /\ pc[p] = "subscriptionActivate"
  /\ \E ok \in BOOLEAN :
       IF ok THEN /\ subscription' = [subscription EXCEPT ![ord[p]].status = "active"]
                  /\ Goto(p, "subscriptionActivate", "activityCreate")
             ELSE /\ subscription' = subscription
                  /\ Reject(p, "subscriptionActivate")
  /\ UNCHANGED <<pmVars, processedAt, orderSubscription, transactions, activities,
                 backers, writeVars, gwVars, instVars, otherParts>>

\* models.Activity.create({type: SUBSCRIPTION_CONFIRMED, ...}) (lines 270-278).
ActivityCreate(p) ==
  /\ pc[p] = "activityCreate"
  /\ \E ok \in BOOLEAN :
       IF ok THEN /\ activities' = activities \cup {[order |-> ord[p], by |-> inv[p]]}
                  /\ Goto(p, "activityCreate", "findOrAddUserWithRole")
             ELSE /\ activities' = activities
                  /\ Reject(p, "activityCreate")
  /\ UNCHANGED <<pmVars, processedAt, orderSubscription, subscription, transactions,
                 backers, writeVars, gwVars, instVars, otherParts>>

\* FindOrAddUserWithRole as it would be if the grant were started and not
\* waited for: the chain marks the order whatever the grant does.
FindOrAddUserWithRoleNotAwaited(p) ==
  /\ pc[p] = "findOrAddUserWithRole"
  /\ \E ok \in BOOLEAN :
       /\ backers' = IF ok THEN backers \cup {inv[p]} ELSE backers
       /\ Goto(p, "findOrAddUserWithRole", "orderUpdate")
  /\ UNCHANGED <<pmVars, processedAt, orderSubscription, subscription, transactions,
                 activities, writeVars, gwVars, instVars, otherParts>>

\* toCollective.findOrAddUserWithRole(user, roles.BACKER, ...) (line 365).
FindOrAddUserWithRole(p) ==
  /\ pc[p] = "findOrAddUserWithRole"
  /\ \E ok \in BOOLEAN :
       IF ok THEN /\ backers' = backers \cup {inv[p]}
                  /\ Goto(p, "findOrAddUserWithRole", "orderUpdate")
             ELSE /\ backers' = backers
                  /\ Reject(p, "findOrAddUserWithRole")
  /\ UNCHANGED <<pmVars, processedAt, orderSubscription, subscription, transactions,
                 activities, writeVars, gwVars, instVars, otherParts>>

\* order.update({ processedAt: new Date() }) (line 368).
OrderUpdate(p) ==
  /\ pc[p] = "orderUpdate"
  /\ \E ok \in BOOLEAN :
       IF ok THEN /\ processedAt' = [processedAt EXCEPT ![ord[p]] = @ \cup {inv[p]}]
                  /\ Goto(p, "orderUpdate", "paymentMethodUpdate")
             ELSE /\ processedAt' = processedAt
                  /\ Reject(p, "orderUpdate")
  /\ UNCHANGED <<pmVars, orderSubscription, subscription, transactions, activities,
                 backers, writeVars, gwVars, instVars, otherParts>>

\* paymentMethod.update({confirmedAt: new Date}) (line 371), and then the
\* chain resolves with the transactions (line 373).
PaymentMethodUpdate(p) ==
  /\ pc[p] = "paymentMethodUpdate"
  /\ \E ok \in BOOLEAN :
       IF ok THEN /\ pmConfirmedAt' = pmConfirmedAt \cup {inv[p]}
                  /\ Goto(p, "paymentMethodUpdate", "resolved")
             ELSE /\ pmConfirmedAt' = pmConfirmedAt
                  /\ Reject(p, "paymentMethodUpdate")
  /\ UNCHANGED <<pmCustomerId, pmHostCustomerId, rowVars, writeVars, gwVars,
                 instVars, otherParts>>

\* A write that was started and not awaited reaches the store:
\* paymentMethod.update({customerId}) (line 349) sets the column, and
\* paymentMethod.save() (line 237) stores the instance's data; neither looks
\* at what the row holds.
DetachedWriteCompletes(w) ==
  /\ w \in pendingWrites
  /\ pendingWrites' = pendingWrites \ {w}
  /\ IF w.field = "customerId"
       THEN pmCustomerId' = w.value /\ pmHostCustomerId' = pmHostCustomerId
       ELSE pmHostCustomerId' = w.value /\ pmCustomerId' = pmCustomerId
  /\ UNCHANGED <<pmConfirmedAt, failedWrites, rowVars, gwVars, instVars,
                 pc, log, failedAt, otherParts>>

\* Such a write is rejected by the store; nobody handles the rejection.
DetachedWriteFails(w) ==
  /\ w \in pendingWrites
  /\ pendingWrites' = pendingWrites \ {w}
  /\ failedWrites' = failedWrites \cup {w}
  /\ UNCHANGED <<pmVars, rowVars, gwVars, instVars, pc, log, failedAt, otherParts>>

\* All writes that can ever be started.
Writes == [field : {"customerId", "data"}, value : 1..MaxInvocations]

\* One step of the chain of worker p.
Step(p) ==
  \/ GetHostStripeAccount(p)
  \/ PlatformCustomer(p)
  \/ CreateToken(p)
  \/ CreateCharge(p)
  \/ RetrieveBalanceTransaction(p)
  \/ CreateFromPayload(p)
  \/ GetOrCreatePlan(p)
  \/ GetOrCreateCustomerIdForHost(p)
  \/ HostCreateCustomer(p)
  \/ StripeCreateSubscription(p)
  \/ SubscriptionUpdate(p)
  \/ SubscriptionActivate(p)
  \/ ActivityCreate(p)
  \/ FindOrAddUserWithRole(p)
  \/ OrderUpdate(p)
  \/ PaymentMethodUpdate(p)

DetachedWrite ==
  \E w \in Writes : DetachedWriteCompletes(w) \/ DetachedWriteFails(w)

\* One workflow instance at a time: processOrder is called, ends, and is
\* called again (a retry, or the next order), MaxInvocations times in all.
Next ==
  \/ ProcessOrder("w1")
  \/ Step("w1")
  \/ DetachedWrite

Spec == Init /\ [][Next]_vars

\* Two workflow instances side by side, each running processOrder once, in
\* any interleaving (one after the other included).
ConcurrentNext ==
  \/ \E p \in Procs : pc[p] = "idle" /\ ProcessOrder(p)
  \/ \E p \in Procs : Step(p)
  \/ DetachedWrite

ConcurrentSpec == Init /\ [][ConcurrentNext]_vars

(***************************************************************************)
(* Properties of processOrder.                                             *)
(***************************************************************************)

\* The steps of processOrder(order), in the order of the chain of lines
\* 336-373 (with createChargeAndTransactions, lines 288-331, and
\* createSubscription, lines 242-278, in place).
SubscriptionSteps ==
  <<"getOrCreatePlan", "getOrCreateCustomerIdForHost", "stripeCreateSubscription",
    "subscriptionUpdate", "subscriptionActivate", "activityCreate">>

ChargeSteps ==
  <<"getHostStripeAccount", "platformCustomer", "createToken",
    "createCharge", "retrieveBalanceTransaction", "createFromPayload">>

ClosingSteps == <<"findOrAddUserWithRole", "orderUpdate", "paymentMethodUpdate">>

ExpectedSteps(o) ==
  ChargeSteps \o (IF orderSubscription[o] THEN SubscriptionSteps ELSE <<>>) \o ClosingSteps

IsPrefix(s, t) == Len(s) <= Len(t) /\ \A i \in 1..Len(s) : s[i] = t[i]

Started(p, step) == \E i \in 1..Len(log[p]) : log[p][i] = step

\* The row or gateway object that the invocation of worker p leaves.
Own(p) == [order |-> ord[p], by |-> inv[p]]

\* C1: for one order, whatever the sequence of processOrder attempts, the
\* gateway has executed at most one createCharge for it and the ledger holds
\* at most one Transaction record for it.
AtMostOneChargePerOrder ==
  \A o \in Orders :
    /\ Cardinality({c \in gwCharges : c.order = o}) <= 1
    /\ Cardinality({t \in transactions : t.order = o}) <= 1

\* The steps that the chain waits for: they start in the fixed order, and a
\* rejected one ends the chain there.
AwaitedStepsAbort ==
  \A p \in Procs :
    /\ IsPrefix(log[p], ExpectedSteps(ord[p]))
    /\ failedAt[p] # "" => pc[p] = "rejected" /\ log[p][Len(log[p])] = failedAt[p]
    /\ pc[p] = "rejected" => failedAt[p] # ""
    /\ pc[p] = "resolved" => log[p] = ExpectedSteps(ord[p])

\* C2: processOrder runs its steps in the fixed order, and once a step of an
\* invocation has failed (a call of the chain, or the write of the customer
\* id that belongs to the step), that invocation starts no further step.
NoStepAfterFailedStep ==
  [][\A p \in Procs :
       /\ IsPrefix(log'[p], ExpectedSteps(ord'[p]))
       /\ Len(log'[p]) > Len(log[p]) =>
            /\ failedAt[p] = ""
            /\ \A w \in failedWrites : w.value # inv[p]]_vars

\* C3: when the gateway's createSubscription failed in an invocation, the
\* Transaction of that invocation's charge is in the ledger and
\* order.processedAt is not set by that invocation: it is unset unless
\* another invocation ran through to its order.update.
SubscriptionFailureKeepsCharge ==
  \A p \in Procs :
    failedAt[p] = "stripeCreateSubscription" =>
      /\ Own(p) \in transactions
      /\ inv[p] \notin processedAt[ord[p]]
      /\ processedAt[ord[p]] \subseteq backers

SubscriptionFailureKeepsChargeWitness ==
  \E p \in Procs :
    /\ pc[p] = "rejected" /\ failedAt[p] = "stripeCreateSubscription"
    /\ Own(p) \in transactions /\ processedAt[ord[p]] = {}

\* C4: a Transaction row is there only if createCharge and
\* retrieveBalanceTransaction of the same invocation succeeded; an
\* invocation that failed at or before the charge step has written no row.
NoTransactionWithoutCharge ==
  /\ \A t \in transactions : t \in gwCharges /\ t \in gwBalances
  /\ \A p \in Procs :
       failedAt[p] \in {"getHostStripeAccount", "platformCustomer", "createToken",
                        "createCharge", "retrieveBalanceTransaction", "createFromPayload"}
         => Own(p) \notin transactions

NoTransactionWithoutChargeWitness ==
  /\ \E p \in Procs :
       /\ failedAt[p] = "retrieveBalanceTransaction"
       /\ Own(p) \in gwCharges /\ Own(p) \notin transactions
  /\ transactions # {}

\* C5: order.processedAt is set only by an invocation whose charge succeeded
\* and whose Transaction is persisted, whose subscription protocol (when the
\* order has a subscription) ran through to its Activity, and whose role
\* grant completed; paymentMethod.confirmedAt is set only by an invocation
\* that has set order.processedAt.
ProcessedOnlyAfterFullOrchestration ==
  /\ \A o \in Orders : \A i \in processedAt[o] :
       LET own == [order |-> o, by |-> i] IN
         /\ own \in gwCharges /\ own \in transactions
         /\ orderSubscription[o] => own \in gwSubscriptions /\ own \in activities
         /\ i \in backers
  /\ \A i \in pmConfirmedAt : \E o \in Orders : i \in processedAt[o]

ProcessedOnlyAfterFullOrchestrationWitness ==
  \E p \in Procs :
    /\ pc[p] = "resolved" /\ orderSubscription[ord[p]]
    /\ inv[p] \in processedAt[ord[p]] /\ inv[p] \in pmConfirmedAt
    /\ Own(p) \in activities

\* C6: the stored customerId of the payment method, once written, is never
\* replaced by another run's customer id.
PlatformCustomerFirstWriteWins ==
  [][pmCustomerId # 0 => pmCustomerId' = pmCustomerId]_vars

\* C7: the stored CustomerIdForHost[host] entry, once written, is never
\* replaced by a different customer id.
HostCustomerFirstWriteWins ==
  [][pmHostCustomerId # 0 => pmHostCustomerId' = pmHostCustomerId]_vars

\* C9: in the subscription protocol each event comes only after the one
\* before it succeeded: plan, host customer, gateway subscription, its id on
\* the local Subscription, the Subscription active, the Activity.  So a
\* Subscription is active, and a SUBSCRIPTION_CONFIRMED Activity exists,
\* only when the gateway's createSubscription succeeded.
SubscriptionProtocolOrder ==
  /\ \A p \in Procs :
       \A i \in 1..Len(log[p]) : \A j \in 1..Len(SubscriptionSteps) :
         log[p][i] = SubscriptionSteps[j] =>
           /\ i > j /\ \A k \in 1..j : log[p][i - j + k] = SubscriptionSteps[k]
           /\ failedAt[p] \in {"", log[p][Len(log[p])]}
  /\ \A o \in Orders :
       /\ subscription[o].stripeSubscriptionId # 0 =>
            [order |-> o, by |-> subscription[o].stripeSubscriptionId] \in gwSubscriptions
       /\ subscription[o].status = "active" => subscription[o].stripeSubscriptionId # 0
  /\ \A a \in activities :
       a \in gwSubscriptions /\ subscription[a.order].status = "active"

SubscriptionProtocolOrderWitness ==
  \E p \in Procs :
    /\ Started(p, "activityCreate") /\ Own(p) \in activities
    /\ subscription[ord[p]] = [stripeSubscriptionId |-> inv[p], status |-> "active"]

(***************************************************************************)
(* Part 2: getSubscriptionTrialEndDate (lines 187-197).                    *)
(*                                                                         *)
(* A Date holds a time value, the milliseconds since the epoch.  The model *)
(* keeps it as [sec, ms] (the whole seconds and the milliseconds within    *)
(* the second) so that the numbers stay within 32 bits; the time value is  *)
(* sec * 1000 + ms.  setDate, getMonth and setMonth work on local time,    *)
(* here a time zone at a fixed offset from UTC.                            *)
(***************************************************************************)

\* Bound: the years order.createdAt is drawn from are 2019..2019 + MaxYears.
MaxYears == 2

SecondsPerDay == 24 * 60 * 60

\* Day number (since the epoch) of 1 January of year y.
DayFromYear(y) ==
  365 * (y - 1970) + ((y - 1969) \div 4) - ((y - 1901) \div 100) + ((y - 1601) \div 400)

DaysInYear(y) ==
  IF y % 4 # 0 THEN 365 ELSE IF y % 100 # 0 THEN 366 ELSE IF y % 400 # 0 THEN 365 ELSE 366

\* The year a day number falls in.
YearFromDay(day) ==
  CHOOSE y \in 1970..2037 : DayFromYear(y) <= day /\ day < DayFromYear(y + 1)

\* Day within the year (from 0) of the first day of month m (from 0).
FirstDayOfMonth(m, leap) ==
  CASE m = 0 -> 0
    [] m = 1 -> 31
    [] m = 2 -> 59 + leap
    [] m = 3 -> 90 + leap
    [] m = 4 -> 120 + leap
    [] m = 5 -> 151 + leap
    [] m = 6 -> 181 + leap
    [] m = 7 -> 212 + leap
    [] m = 8 -> 243 + leap
    [] m = 9 -> 273 + leap
    [] m = 10 -> 304 + leap
    [] m = 11 -> 334 + leap
    [] m = 12 -> 365 + leap

Leap(y) == DaysInYear(y) - 365

\* The month (from 0) a day number falls in.
MonthFromDay(day) ==
  LET y == YearFromDay(day)
      d == day - DayFromYear(y)
  IN  CHOOSE m \in 0..11 :
        FirstDayOfMonth(m, Leap(y)) <= d /\ d < FirstDayOfMonth(m + 1, Leap(y))

\* The day of the month (from 1) of a day number.
DateFromDay(day) ==
  LET y == YearFromDay(day)
  IN  day - DayFromYear(y) - FirstDayOfMonth(MonthFromDay(day), Leap(y)) + 1

\* The day number of year/month/date, where month may run past 11 and date
\* past the end of the month, as Date's setters allow.
MakeDay(year, month, date) ==
  LET ym == year + (month \div 12)
      mn == month % 12
  IN  DayFromYear(ym) + FirstDayOfMonth(mn, Leap(ym)) + date - 1

\* The local seconds of a Date, and back.
LocalSeconds(d, zone) == d.sec + zone

FromLocalSeconds(s, ms, zone) == [sec |-> s - zone, ms |-> ms]

\* date.setDate(n): the date with its day of the month set, in local time.
SetDate(d, n, zone) ==
  LET s == LocalSeconds(d, zone)
      day == s \div SecondsPerDay
  IN  FromLocalSeconds(
        MakeDay(YearFromDay(day), MonthFromDay(day), n) * SecondsPerDay
          + (s % SecondsPerDay), d.ms, zone)

\* date.getMonth().
GetMonth(d, zone) == MonthFromDay(LocalSeconds(d, zone) \div SecondsPerDay)

\* date.setMonth(m): the date with its month set, in local time.
SetMonth(d, m, zone) ==
  LET s == LocalSeconds(d, zone)
      day == s \div SecondsPerDay
  IN  FromLocalSeconds(
        MakeDay(YearFromDay(day), m, DateFromDay(day)) * SecondsPerDay
          + (s % SecondsPerDay), d.ms, zone)

\* Math.floor(timeValue / 1000).
FloorSeconds(d) == d.sec

\* getSubscriptionTrialEndDate without newDate.setDate(1).
TrialEndDateKeepingTheDay(date, intv, zone) ==
  IF intv = "month" THEN <<FloorSeconds(SetMonth(date, GetMonth(date, zone) + 1, zone))>>
  ELSE IF intv = "year" THEN <<FloorSeconds(SetMonth(date, GetMonth(date, zone) + 12, zone))>>
  ELSE <<>>

\* getSubscriptionTrialEndDate(originalDate, interval) (lines 187-197), on a
\* copy of the date.
TrialEndDate(date, intv, zone) ==
  LET newDate == SetDate(date, 1, zone)
  IN  IF intv = "month"
        THEN <<FloorSeconds(SetMonth(newDate, GetMonth(newDate, zone) + 1, zone))>>
      ELSE IF intv = "year"
        THEN <<FloorSeconds(SetMonth(newDate, GetMonth(newDate, zone) + 12, zone))>>
      ELSE <<>>

\* ---- the inputs

Years == 2019..(2019 + MaxYears)

MonthLength(y, m) ==
  IF m = 2 THEN 28 + Leap(y) ELSE IF m \in {4, 6, 9, 11} THEN 30 ELSE 31

\* Days counted one by one: the seconds since the epoch of a local calendar
\* date and time of day.
RECURSIVE DaysBeforeYear(_)
DaysBeforeYear(y) == IF y = 1970 THEN 0 ELSE DaysBeforeYear(y - 1) + DaysInYear(y - 1)

RECURSIVE DaysBeforeMonth(_, _)
DaysBeforeMonth(y, m) == IF m = 1 THEN 0 ELSE DaysBeforeMonth(y, m - 1) + MonthLength(y, m - 1)

EpochSeconds(y, m, d, time, zone) ==
  (DaysBeforeYear(y) + DaysBeforeMonth(y, m) + d - 1) * SecondsPerDay + time - zone

\* The local calendar dates and times an order is created at.
CreationDates ==
  {c \in [year : Years, month : 1..12, day : {1, 15, 28, 29, 30, 31},
          time : {0, 49521, SecondsPerDay - 1}, ms : {0, 999}] :
     c.day <= MonthLength(c.year, c.month)}

TimeZones == {0 - 5 * 3600, 0, 5 * 3600 + 1800}

Intervals == {"month", "year", "week", ""}

DateInit ==
  /\ createdAt \in CreationDates
  /\ tz \in TimeZones
  /\ interval \in Intervals
  /\ originalDate = [sec |-> EpochSeconds(createdAt.year, createdAt.month, createdAt.day,
                                          createdAt.time, tz),
                     ms |-> createdAt.ms]
  /\ trialEnd = <<>>
  /\ datePc = "ready"
  /\ OrderIdle /\ MigrationIdle

\* The call of line 261: trial_end is computed from order.createdAt, which
\* the function copies (line 188) and does not touch.
GetSubscriptionTrialEndDate ==
  /\ datePc = "ready"
  /\ trialEnd' = TrialEndDate(originalDate, interval, tz)
  /\ datePc' = "returned"
  /\ UNCHANGED <<createdAt, tz, originalDate, interval, orderVars, migrationVars>>

DateNext == GetSubscriptionTrialEndDate

DateSpec == DateInit /\ [][DateNext]_vars

\* C8: for 'month' the result is the epoch seconds of createdAt with the day
\* of the month set to 1 and one calendar month added (December goes to
\* January of the next year), for 'year' with twelve months added, for any
\* other interval null; 2020-03-15 and 'month' give 2020-04-01T00:00:00 of
\* the same time zone; createdAt keeps its value.
TrialEndIsFirstOfNextMonth ==
  datePc = "returned" =>
    /\ interval = "month" =>
         trialEnd = <<EpochSeconds(IF createdAt.month = 12 THEN createdAt.year + 1
                                                          ELSE createdAt.year,
                                   IF createdAt.month = 12 THEN 1 ELSE createdAt.month + 1,
                                   1, createdAt.time, tz)>>
    /\ interval = "year" =>
         trialEnd = <<EpochSeconds(createdAt.year + 1, createdAt.month, 1,
                                   createdAt.time, tz)>>
    /\ interval \notin {"month", "year"} => trialEnd = <<>>
    /\ (interval = "month" /\ createdAt.year = 2020 /\ createdAt.month = 3
          /\ createdAt.day = 15 /\ createdAt.time = 0) => trialEnd = <<1585699200 - tz>>
    /\ originalDate = [sec |-> EpochSeconds(createdAt.year, createdAt.month, createdAt.day,
                                            createdAt.time, tz),
                       ms |-> createdAt.ms]

TrialEndIsFirstOfNextMonthWitness ==
  /\ datePc = "returned" /\ interval = "month" /\ tz = 0
  /\ createdAt = [year |-> 2020, month |-> 3, day |-> 15, time |-> 0, ms |-> 0]
  /\ trialEnd = <<1585699200>>

(***************************************************************************)
(* Part 3: the Migration class of                                          *)
(* src/scripts/properly_populate_transaction_fees.js.                      *)
(*                                                                         *)
(* A row of the Transactions table is a record of the columns the script   *)
(* reads.  0 stands for null in ExpenseId and OrderId (ids start at 1) and *)
(* in options.limit for an absent --limit; hostCurrencyFxRate is <<>> for  *)
(* null and <<r>> for the rate r; deletedAt is TRUE when the column is     *)
(* set.  Amounts, fees and rates are whole numbers.                        *)
(***************************************************************************)

\* Bounds: transaction groups in the table, options.batchSize, options.limit.
MaxGroups == 2

MaxBatchSize == 2

MaxLimit == 3

\* What the two rows of a group can be: CREDIT then DEBIT, DEBIT then
\* CREDIT, a CREDIT whose DEBIT is missing, a CREDIT whose DEBIT is deleted.
Shapes == {"CD", "DC", "C", "Cd"}

\* What a group is linked to: an order, an expense, or nothing.
Kinds == {"order", "expense", "none"}

\* One row.  An order-linked DEBIT carries its fees with the positive sign
\* and no fx rate; everything else about a row is as it should be.
Row(id, g, type, deleted, kind) ==
  [id |-> id, TransactionGroup |-> g, type |-> type, deletedAt |-> deleted,
   ExpenseId |-> IF kind = "expense" THEN g ELSE 0,
   OrderId |-> IF kind = "order" THEN g ELSE 0,
   amount |-> IF type = "CREDIT" THEN 100 ELSE 0 - 100,
   amountInHostCurrency |-> IF type = "CREDIT" THEN 100 ELSE 0 - 100,
   hostFeeInHostCurrency |-> IF type = "CREDIT" THEN 0 ELSE 5,
   platformFeeInHostCurrency |-> IF type = "CREDIT" THEN 0 ELSE 3,
   paymentProcessorFeeInHostCurrency |-> IF type = "CREDIT" THEN 0 ELSE 2,
   hostCurrencyFxRate |-> IF type = "CREDIT" THEN <<1>> ELSE <<>>,
   netAmountInCollectiveCurrency |-> IF type = "CREDIT" THEN 100 ELSE 0 - 110]

\* The rows of group g, the first of them getting id `id`.
GroupRows(id, g, shape, kind) ==
  CASE shape = "CD" -> <<Row(id, g, "CREDIT", FALSE, kind), Row(id + 1, g, "DEBIT", FALSE, kind)>>
    [] shape = "DC" -> <<Row(id, g, "DEBIT", FALSE, kind), Row(id + 1, g, "CREDIT", FALSE, kind)>>
    [] shape = "C" -> <<Row(id, g, "CREDIT", FALSE, kind)>>
    [] shape = "Cd" -> <<Row(id, g, "CREDIT", FALSE, kind), Row(id + 1, g, "DEBIT", TRUE, kind)>>

\* The table of groups 1..n, ordered by TransactionGroup.
RECURSIVE BuildTable(_, _, _)
BuildTable(n, shapes, kinds) ==
  IF n = 0 THEN <<>>
  ELSE LET before == BuildTable(n - 1, shapes, kinds)
       IN  before \o GroupRows(Len(before) + 1, n, shapes[n], kinds[n])

MigrationInit ==
  /\ \E n \in 1..MaxGroups :
       \E shapes \in [1..n -> Shapes], kinds \in [1..n -> Kinds] :
         table = BuildTable(n, shapes, kinds)
  /\ options \in [batchSize : 1..MaxBatchSize, limit : 0..MaxLimit, dryRun : BOOLEAN]
  /\ offset = 0 /\ count = 0 /\ batch = <<>> /\ idx = 0 /\ migrated = <<>>
  /\ runPc = "run" /\ runError = ""
  /\ given = <<>> /\ trs = <<>> /\ calls = <<>> /\ verified = <<>>
  /\ OrderIdle /\ DateIdle

\* where: { deletedAt: null }, order: ['TransactionGroup'] (lines 18-20).
IsValid(tr) == ~tr.deletedAt

ValidTransactions == SelectSeq(table, IsValid)

\* countValidTransactions (lines 12-14).
CountValidTransactions == Len(ValidTransactions)

\* A number times a rate: null counts as 0 in a product.
TimesRate(n, rate) == IF rate = <<>> THEN 0 ELSE n * rate[1]

\* trValue (lines 29-33); Math.round leaves a whole number as it is.
TrValue(tr) ==
  TimesRate(tr.amountInHostCurrency + tr.hostFeeInHostCurrency
              + tr.platformFeeInHostCurrency + tr.paymentProcessorFeeInHostCurrency,
            tr.hostCurrencyFxRate)

\* verify (line 36).
Verify(tr) == TrValue(tr) = tr.netAmountInCollectiveCurrency

\* A sign flip with no test of the sign.
ToNegativeAlways(value) == 0 - value

\* toNegative (lines 42-44).
ToNegative(value) == IF value > 0 THEN 0 - value ELSE value

\* !rate: null and 0 are the rates that count as false.
IsFalsy(rate) == rate = <<>> \/ rate = <<0>>

\* ensureHostCurrencyFxRate (lines 47-50).
EnsureHostCurrencyFxRate(tr) ==
  IF tr.amount = tr.amountInHostCurrency /\ IsFalsy(tr.hostCurrencyFxRate)
    THEN [tr EXCEPT !.hostCurrencyFxRate = <<1>>]
    ELSE tr

\* hasFees (lines 53-55).
HasFees(tr) ==
  \/ tr.hostFeeInHostCurrency # 0
  \/ tr.platformFeeInHostCurrency # 0
  \/ tr.paymentProcessorFeeInHostCurrency # 0

\* rewriteFees that also sets netAmountInCollectiveCurrency to the new value
\* of each row.
RewriteFeesAndNet(credit, debit) ==
  LET h == ToNegative(credit.hostFeeInHostCurrency)
      f == ToNegative(credit.platformFeeInHostCurrency)
      q == ToNegative(credit.paymentProcessorFeeInHostCurrency)
      c == [credit EXCEPT !.hostFeeInHostCurrency = h, !.platformFeeInHostCurrency = f,
                          !.paymentProcessorFeeInHostCurrency = q]
      d == [debit EXCEPT !.hostFeeInHostCurrency = h, !.platformFeeInHostCurrency = f,
                         !.paymentProcessorFeeInHostCurrency = q]
  IN  <<[c EXCEPT !.netAmountInCollectiveCurrency = TrValue(c)],
        [d EXCEPT !.netAmountInCollectiveCurrency = TrValue(d)]>>

\* rewriteFees (lines 58-62): each fee of both rows becomes toNegative of the
\* credit's fee.  The result is <<credit, debit>>.
RewriteFees(credit, debit) ==
  LET h == ToNegative(credit.hostFeeInHostCurrency)
      f == ToNegative(credit.platformFeeInHostCurrency)
      q == ToNegative(credit.paymentProcessorFeeInHostCurrency)
  IN  <<[credit EXCEPT !.hostFeeInHostCurrency = h, !.platformFeeInHostCurrency = f,
                       !.paymentProcessorFeeInHostCurrency = q],
        [debit EXCEPT !.hostFeeInHostCurrency = h, !.platformFeeInHostCurrency = f,
                      !.paymentProcessorFeeInHostCurrency = q]>>

\* migrate with the test of the OrderId before the test of the ExpenseId.
MigrateOrderFirst(tr1, tr2) ==
  LET creditIsFirst == tr1.type = "CREDIT"
      debitIsFirst == tr1.type = "DEBIT"
      credit == IF creditIsFirst THEN tr1 ELSE tr2
      debit == IF debitIsFirst THEN tr1 ELSE tr2
      Back(c, d) == <<IF creditIsFirst THEN c ELSE IF debitIsFirst THEN d ELSE tr1,
                      IF ~creditIsFirst THEN c ELSE IF ~debitIsFirst THEN d ELSE tr2>>
  IN  IF tr1.OrderId # 0 /\ tr1.OrderId = tr2.OrderId
        THEN LET c == EnsureHostCurrencyFxRate(credit)
                 d == EnsureHostCurrencyFxRate(debit)
             IN  IF ~HasFees(tr1) /\ ~HasFees(tr2)
                   THEN Back(c, d)
                   ELSE Back(RewriteFees(c, d)[1], RewriteFees(c, d)[2])
      ELSE <<tr1, tr2>>

\* migrate(tr1, tr2) (lines 65-115): the two instances as it leaves them,
\* <<tr1, tr2>>.  run() has compared the groups before the call.
Migrate(tr1, tr2) ==
  LET creditIsFirst == tr1.type = "CREDIT"
      debitIsFirst == tr1.type = "DEBIT"
      credit == IF creditIsFirst THEN tr1 ELSE tr2
      debit == IF debitIsFirst THEN tr1 ELSE tr2
      Back(c, d) == <<IF creditIsFirst THEN c ELSE IF debitIsFirst THEN d ELSE tr1,
                      IF ~creditIsFirst THEN c ELSE IF ~debitIsFirst THEN d ELSE tr2>>
  IN  IF tr1.ExpenseId # 0 /\ tr1.ExpenseId = tr2.ExpenseId
        THEN <<tr1, tr2>>
      ELSE IF tr1.OrderId # 0 /\ tr1.OrderId = tr2.OrderId
        THEN LET c == EnsureHostCurrencyFxRate(credit)
                 d == EnsureHostCurrencyFxRate(debit)
             IN  IF ~HasFees(tr1) /\ ~HasFees(tr2)
                   THEN Back(c, d)
                   ELSE Back(RewriteFees(c, d)[1], RewriteFees(c, d)[2])
      ELSE <<tr1, tr2>>

\* run() starts (line 119): count is options.limit, or else the number of
\* valid transactions.
Run ==
  /\ runPc = "run"
  /\ count' = IF options.limit # 0 THEN options.limit ELSE CountValidTransactions
  /\ runPc' = "while"
  /\ UNCHANGED <<table, options, offset, batch, idx, migrated, runError,
                 pairVars, orderVars, dateVars>>

\* The loop goes on (line 120) and retrieveValidTransactions (lines 17-26)
\* reads the next batch and moves the offset by its length.
RetrieveValidTransactions ==
  /\ runPc = "while"
  /\ offset < count
  /\ LET valid == ValidTransactions
         last == IF offset + options.batchSize < Len(valid)
                   THEN offset + options.batchSize ELSE Len(valid)
         page == SubSeq(valid, offset + 1, last)
     IN  /\ batch' = page
         /\ offset' = offset + Len(page)
  /\ idx' = 0
  /\ runPc' = "for"
  /\ UNCHANGED <<table, options, count, migrated, runError, pairVars, orderVars, dateVars>>

\* The loop ends (line 120): run() resolves.
RunResolves ==
  /\ runPc = "while"
  /\ offset >= count
  /\ runPc' = "resolved"
  /\ UNCHANGED <<table, options, offset, count, batch, idx, migrated, runError,
                 pairVars, orderVars, dateVars>>

\* One turn of the for loop (lines 126-133): past the end of the batch the
\* loop is left; transactions[i + 1] may be undefined, and reading its
\* TransactionGroup throws a TypeError; two groups that differ throw the
\* error of line 129; otherwise the pair is migrated.
ForPair ==
  /\ runPc = "for"
  /\ IF idx >= Len(batch)
       THEN /\ runPc' = "while"
            /\ UNCHANGED <<batch, idx, migrated, runError>>
     ELSE IF idx + 1 >= Len(batch)
       THEN /\ runPc' = "rejected"
            /\ runError' = "TypeError"
            /\ UNCHANGED <<batch, idx, migrated>>
     ELSE IF batch[idx + 1].TransactionGroup # batch[idx + 2].TransactionGroup
       THEN /\ runPc' = "rejected"
            /\ runError' = "Cannot find pair"
            /\ UNCHANGED <<batch, idx, migrated>>
     ELSE LET pair == Migrate(batch[idx + 1], batch[idx + 2])
          IN  /\ batch' = [batch EXCEPT ![idx + 1] = pair[1], ![idx + 2] = pair[2]]
              /\ migrated' = Append(migrated, <<batch[idx + 1].id, batch[idx + 2].id>>)
              /\ idx' = idx + 2
              /\ UNCHANGED <<runPc, runError>>
  /\ UNCHANGED <<table, options, offset, count, pairVars, orderVars, dateVars>>

MigrationNext ==
  \/ Run
  \/ RetrieveValidTransactions
  \/ RunResolves
  \/ ForPair

MigrationSpec == MigrationInit /\ [][MigrationNext]_vars

\* ---- properties of run()

\* The place in the scan (from 0) of the row the for loop is at.
Boundary == offset - Len(batch) + idx

\* A valid row with no valid row of its group beside it.
IsOddOneOut(tr) ==
  \A k \in 1..Len(ValidTransactions) :
    ValidTransactions[k].TransactionGroup = tr.TransactionGroup
      => ValidTransactions[k].id = tr.id

\* The pairs (1, 2), (3, 4), ... of the first n rows of the scan.
PairsBefore(n) ==
  [k \in 1..(n \div 2) |-> <<ValidTransactions[2 * k - 1].id, ValidTransactions[2 * k].id>>]

\* What does hold when run() stops at a row: the pairs before it have been
\* migrated, in order, and nothing else.
RunStopsAtTheBoundary ==
  runPc = "rejected" =>
    /\ runError \in {"TypeError", "Cannot find pair"}
    /\ options.batchSize % 2 = 0 => migrated = PairsBefore(Boundary)

\* C10: when the scan comes to a row that has no partner, run() is rejected
\* with the pairing error there: the pairs before it have been migrated and
\* no row at or after it.
OddOneOutRaisesPairingError ==
  (runPc = "rejected" /\ IsOddOneOut(batch[idx + 1])) =>
    /\ runError = "Cannot find pair"
    /\ migrated = PairsBefore(Boundary)

\* ---- termination of run()

\* The loop of run() goes on as long as it can: the promises it awaits are
\* settled and the event loop runs their continuations.
MigrationFairSpec == MigrationSpec /\ WF_vars(MigrationNext)

\* Every group of the table has one CREDIT and one DEBIT among the valid
\* rows, next to each other in the scan.
CorrectlyPaired ==
  /\ Len(ValidTransactions) % 2 = 0
  /\ \A k \in 1..(Len(ValidTransactions) \div 2) :
       /\ ValidTransactions[2 * k - 1].TransactionGroup = ValidTransactions[2 * k].TransactionGroup
       /\ ValidTransactions[2 * k - 1].type # ValidTransactions[2 * k].type

\* C11: on a table of correctly paired rows run() terminates, whatever the
\* limit (absent, or any positive number, one larger than the number of rows
\* included): the loop stops with the offset at or past the count, and does
\* not go on for ever on an empty batch.  Stated for the batch sizes that
\* never split a pair.
RunTerminates ==
  (CorrectlyPaired /\ options.batchSize % 2 = 0)
    => <>(runPc = "resolved" /\ offset >= count)

(***************************************************************************)
(* Part 4: migrate, verify and ensureHostCurrencyFxRate called on their    *)
(* own, on two rows of one TransactionGroup drawn from bounded sets.       *)
(***************************************************************************)

\* Bound: the calls made on one pair of instances.
MaxCalls == 2

\* The three fee columns of a row: host, platform, payment processor.
FeeTriples == {<<0, 0, 0>>, <<50, 30, 20>>, <<0 - 50, 0 - 30, 0 - 20>>, <<50, 0, 0 - 20>>}

\* hostCurrencyFxRate: null, 0, 1, 2.
Rates == {<<>>, <<0>>, <<1>>, <<2>>}

\* What the two rows are linked to: the same order, the same expense, the
\* same expense and the same order, nothing, two different orders.
Links == {"order", "expense", "both", "none", "mismatch"}

\* One row of the pair.  sameCurrency: amountInHostCurrency is the amount;
\* fixable: netAmountInCollectiveCurrency is the value the row has once its
\* own fees are not positive.
Tr(id, type, link, fees, rate, sameCurrency, fixable) ==
  LET amount == IF type = "CREDIT" THEN 1000 ELSE 0 - 1000
      inHost == IF sameCurrency THEN amount ELSE 2 * amount
      net == TimesRate(inHost + ToNegative(fees[1]) + ToNegative(fees[2])
                         + ToNegative(fees[3]), rate)
  IN  [id |-> id, TransactionGroup |-> 1, type |-> type, deletedAt |-> FALSE,
       ExpenseId |-> IF link \in {"expense", "both"} THEN 3 ELSE 0,
       OrderId |-> IF link \in {"order", "both"} THEN 7
                   ELSE IF link = "mismatch" THEN 7 + id ELSE 0,
       amount |-> amount,
       amountInHostCurrency |-> inHost,
       hostFeeInHostCurrency |-> fees[1],
       platformFeeInHostCurrency |-> fees[2],
       paymentProcessorFeeInHostCurrency |-> fees[3],
       hostCurrencyFxRate |-> rate,
       netAmountInCollectiveCurrency |-> IF fixable THEN net ELSE net + 1]

PairInit ==
  /\ \E type \in {"CREDIT", "DEBIT"}, link \in Links :
       \E f1 \in FeeTriples, f2 \in FeeTriples, r1 \in Rates, r2 \in Rates,
          s1 \in BOOLEAN, s2 \in BOOLEAN, x1 \in BOOLEAN, x2 \in BOOLEAN :
         given = <<Tr(1, type, link, f1, r1, s1, x1),
                   Tr(2, IF type = "CREDIT" THEN "DEBIT" ELSE "CREDIT", link, f2, r2, s2, x2)>>
  /\ trs = given
  /\ calls = <<>>
  /\ verified = <<>>
  /\ table = <<>> /\ options = [batchSize |-> 0, limit |-> 0, dryRun |-> TRUE]
  /\ offset = 0 /\ count = 0 /\ batch = <<>> /\ idx = 0 /\ migrated = <<>>
  /\ runPc = "off" /\ runError = ""
  /\ OrderIdle /\ DateIdle

runVars == <<table, options, offset, count, batch, idx, migrated, runPc, runError>>

\* this.migrate(tr1, tr2) (lines 65-115), on the instances as they are; what
\* it prints about each row is the result of verify (lines 87-92).
MigrateCall ==
  /\ Len(calls) < MaxCalls
  /\ \A k \in 1..Len(calls) : calls[k] = "migrate"
  /\ trs' = Migrate(trs[1], trs[2])
  /\ verified' = <<Verify(trs'[1]), Verify(trs'[2])>>
  /\ calls' = Append(calls, "migrate")
  /\ UNCHANGED <<given, runVars, orderVars, dateVars>>

\* this.ensureHostCurrencyFxRate(tr) (lines 47-50) on each of the instances,
\* as at lines 76-77.
EnsureHostCurrencyFxRateCall ==
  /\ calls = <<>>
  /\ trs' = <<EnsureHostCurrencyFxRate(trs[1]), EnsureHostCurrencyFxRate(trs[2])>>
  /\ calls' = <<"ensureHostCurrencyFxRate">>
  /\ UNCHANGED <<given, verified, runVars, orderVars, dateVars>>

\* this.verify(tr) (line 36) on each of the instances.
VerifyCall ==
  /\ calls = <<>>
  /\ verified' = <<Verify(trs[1]), Verify(trs[2])>>
  /\ calls' = <<"verify">>
  /\ UNCHANGED <<given, trs, runVars, orderVars, dateVars>>

PairNext ==
  \/ MigrateCall
  \/ EnsureHostCurrencyFxRateCall
  \/ VerifyCall

PairSpec == PairInit /\ [][PairNext]_vars

\* ---- properties of migrate

\* The two rows carry the same non-null ExpenseId (line 74).
ExpenseLinked(p) == p[1].ExpenseId # 0 /\ p[1].ExpenseId = p[2].ExpenseId

\* The two rows carry the same non-null OrderId and get to the branch of
\* line 76.
OrderLinked(p) == ~ExpenseLinked(p) /\ p[1].OrderId # 0 /\ p[1].OrderId = p[2].OrderId

\* The three fee columns of a row.
Fees(tr) ==
  <<tr.hostFeeInHostCurrency, tr.platformFeeInHostCurrency,
    tr.paymentProcessorFeeInHostCurrency>>

\* The fee columns of a row with toNegative applied to each.
OwnFeesNegated(tr) ==
  <<ToNegative(tr.hostFeeInHostCurrency), ToNegative(tr.platformFeeInHostCurrency),
    ToNegative(tr.paymentProcessorFeeInHostCurrency)>>

\* C12: when migrate rewrites the fees of an order-linked pair with non-zero
\* fees, every fee column of every row becomes toNegative of that row's own
\* previous value; no column takes its value from the other row.
RewriteFeesNegatesOwnValue ==
  (calls = <<"migrate">> /\ OrderLinked(given) /\ (HasFees(given[1]) \/ HasFees(given[2])))
    => /\ Fees(trs[1]) = OwnFeesNegated(given[1])
       /\ Fees(trs[2]) = OwnFeesNegated(given[2])

\* The row with toNegative applied to its own fee columns.
WithOwnFeesNegated(tr) ==
  [tr EXCEPT !.hostFeeInHostCurrency = ToNegative(tr.hostFeeInHostCurrency),
             !.platformFeeInHostCurrency = ToNegative(tr.platformFeeInHostCurrency),
             !.paymentProcessorFeeInHostCurrency = ToNegative(tr.paymentProcessorFeeInHostCurrency)]

\* The row has a rate, and nothing but the sign of its fees can keep it from
\* adding up.
FixableBySign(tr) == ~IsFalsy(tr.hostCurrencyFxRate) /\ Verify(WithOwnFeesNegated(tr))

\* C13: an order-linked pair whose rows fail the net-value check only because
\* of the sign of their fees passes it after migrate, both rows, and neither
\* row is reported.
FeeSignPairsAddUpAfterMigrate ==
  (/\ calls = <<"migrate">>
   /\ OrderLinked(given)
   /\ FixableBySign(given[1]) /\ FixableBySign(given[2])
   /\ ~Verify(given[1]) \/ ~Verify(given[2]))
    => /\ Verify(trs[1]) /\ Verify(trs[2])
       /\ verified = <<TRUE, TRUE>>

\* ---- what a run leaves alone

\* Two versions of a row that differ at most in the fee columns and in
\* hostCurrencyFxRate.
SameFrame(a, b) ==
  /\ a.id = b.id
  /\ a.TransactionGroup = b.TransactionGroup
  /\ a.type = b.type
  /\ a.deletedAt = b.deletedAt
  /\ a.ExpenseId = b.ExpenseId
  /\ a.OrderId = b.OrderId
  /\ a.amount = b.amount
  /\ a.amountInHostCurrency = b.amountInHostCurrency
  /\ a.netAmountInCollectiveCurrency = b.netAmountInCollectiveCurrency

\* C14: no step of a run adds or deletes a row, and no step changes amount,
\* amountInHostCurrency, netAmountInCollectiveCurrency, TransactionGroup, type
\* or deletedAt of a row, in the table or in the instances read from it; only
\* the fee columns and hostCurrencyFxRate may change.
RunKeepsTheFrame ==
  [][/\ Len(table') = Len(table)
     /\ \A k \in 1..Len(table) : SameFrame(table[k], table'[k])
     /\ \A k \in 1..Len(batch') :
          \E j \in 1..Len(table) : SameFrame(table[j], batch'[k])]_vars

RunKeepsTheFrameWitness ==
  /\ runPc = "resolved"
  /\ migrated # <<>>
  /\ \E k \in 1..Len(batch) : \A j \in 1..Len(table) : batch[k] # table[j]

\* C15: migrate leaves every field of both rows as it was, fee columns and
\* hostCurrencyFxRate included, when the rows carry the same non-null
\* ExpenseId (whether or not they also share an OrderId), and when they share
\* neither a non-null ExpenseId nor a non-null OrderId.
MigrateOnlyVerifiesOtherPairs ==
  (/\ calls # <<>>
   /\ \A k \in 1..Len(calls) : calls[k] = "migrate"
   /\ \/ ExpenseLinked(given)
      \/ ~(given[1].OrderId # 0 /\ given[1].OrderId = given[2].OrderId))
    => trs = given

MigrateOnlyVerifiesOtherPairsWitness ==
  /\ calls = <<"migrate">>
  /\ ExpenseLinked(given)
  /\ given[1].OrderId # 0 /\ given[1].OrderId = given[2].OrderId
  /\ given[1].hostFeeInHostCurrency > 0
  /\ given[1].hostCurrencyFxRate = <<>>
  /\ given[1].amount = given[1].amountInHostCurrency
  /\ trs = given

\* ---- the dry-run flag

\* The stored rows of a pair handed to migrate() are as migrate leaves them.
WrittenBack(ids) ==
  \A j, k \in 1..Len(table) :
    (table[j].id = ids[1] /\ table[k].id = ids[2])
      => Migrate(table[j], table[k]) = <<table[j], table[k]>>

\* C16: the dry-run flag decides whether a run writes: with dryRun true no
\* step changes the stored table; with dryRun false (--notdryrun), when the
\* run is over the stored rows of every migrated pair carry the corrected fee
\* columns and fx rate.
DryRunDecidesTheWrites ==
  /\ [][options.dryRun => table' = table]_vars
  /\ []((runPc = "resolved" /\ ~options.dryRun)
          => \A n \in 1..Len(migrated) : WrittenBack(migrated[n]))

\* ---- migrate applied again

\* C17: migrate is idempotent: a second migrate on the rows a first migrate
\* has left changes no field of either row, as toNegative applied twice is
\* toNegative applied once and ensureHostCurrencyFxRate applied twice is
\* ensureHostCurrencyFxRate applied once.
MigrateTwiceIsMigrateOnce ==
  [][(calls # <<>> /\ calls' = Append(calls, "migrate"))
       => /\ trs' = trs
          /\ \A k \in {1, 2} :
               /\ EnsureHostCurrencyFxRate(trs[k]) = trs[k] \/ ~OrderLinked(given)
               /\ OwnFeesNegated(WithOwnFeesNegated(given[k])) = OwnFeesNegated(given[k])]_vars

MigrateTwiceIsMigrateOnceWitness ==
  /\ Len(calls) = 2
  /\ OrderLinked(given)
  /\ ~Verify(given[2]) /\ Verify(trs[2])
  /\ trs[1].hostCurrencyFxRate # given[1].hostCurrencyFxRate
  /\ Fees(trs[1]) # Fees(given[1])

\* ---- ensureHostCurrencyFxRate and verify

\* C18: ensureHostCurrencyFxRate sets the rate to exactly 1 when amount is
\* amountInHostCurrency and no rate is set (the column is null); it leaves a
\* rate that is there as it is, leaves the rate unset when the two amounts
\* differ, and changes no other field.
EnsureFxRateSetsOnlyAnUnsetRate ==
  calls = <<"ensureHostCurrencyFxRate">> =>
    \A k \in {1, 2} :
      trs[k] = IF given[k].amount = given[k].amountInHostCurrency
                    /\ given[k].hostCurrencyFxRate = <<>>
                 THEN [given[k] EXCEPT !.hostCurrencyFxRate = <<1>>]
                 ELSE given[k]

\* What does hold: the same with a rate of 0 counted as no rate.
EnsureFxRateSetsAFalsyRate ==
  calls = <<"ensureHostCurrencyFxRate">> =>
    \A k \in {1, 2} :
      trs[k] = IF given[k].amount = given[k].amountInHostCurrency
                    /\ given[k].hostCurrencyFxRate \in {<<>>, <<0>>}
                 THEN [given[k] EXCEPT !.hostCurrencyFxRate = <<1>>]
                 ELSE given[k]

\* round(amount + hostFee + platformFee + paymentProcessorFee) * fxRate: the
\* sum over the row's amount, rounded, then the product with the rate.
NetValue(tr) ==
  TimesRate(tr.amount + tr.hostFeeInHostCurrency + tr.platformFeeInHostCurrency
              + tr.paymentProcessorFeeInHostCurrency,
            tr.hostCurrencyFxRate)

\* C19: verify(tr) is true exactly when
\* round(amount + hostFee + platformFee + paymentProcessorFee) * fxRate is
\* the row's netAmountInCollectiveCurrency.
VerifyAgreesWithNetValue ==
  calls = <<"verify">> =>
    \A k \in {1, 2} :
      verified[k] = (NetValue(given[k]) = given[k].netAmountInCollectiveCurrency)

\* What does hold: the same over amountInHostCurrency.
VerifyAgreesWithValueInHostCurrency ==
  calls = <<"verify">> =>
    \A k \in {1, 2} :
      verified[k] = (TimesRate(given[k].amountInHostCurrency + given[k].hostFeeInHostCurrency
                                 + given[k].platformFeeInHostCurrency
                                 + given[k].paymentProcessorFeeInHostCurrency,
                               given[k].hostCurrencyFxRate)
                       = given[k].netAmountInCollectiveCurrency)

(***************************************************************************)
(* processOrder again: the writes of the payment method.                   *)
(***************************************************************************)

\* The writes of the invocation of worker p that have not completed: still
\* pending, or rejected by the store.
Unfinished(p, field) ==
  {w \in pendingWrites \cup failedWrites : w.field = field /\ w.value = inv[p]}

\* C20: within an invocation every write is complete before the next step:
\* the write of the new platform customerId has completed before createToken
\* is called, the write of the new host customer id into PaymentMethod.data
\* has completed before the gateway's createSubscription is called, and
\* processOrder does not return while one of them is pending or after it
\* has failed.
WritesCompleteBeforeNextStep ==
  \A p \in Procs :
    /\ Started(p, "createToken") => Unfinished(p, "customerId") = {}
    /\ Started(p, "stripeCreateSubscription") => Unfinished(p, "data") = {}
    /\ pc[p] = "resolved" => Unfinished(p, "customerId") \cup Unfinished(p, "data") = {}

(***************************************************************************)
(* run() again: the batch size.                                            *)
(***************************************************************************)

\* On a table of correctly paired rows and with no limit: no error, migrate
\* called on the two rows of each group in turn, and on every group once the
\* run is over.
PairsEachGroupOnce ==
  /\ runError = ""
  /\ IsPrefix(migrated, PairsBefore(Len(ValidTransactions)))
  /\ runPc = "resolved" => migrated = PairsBefore(Len(ValidTransactions))

\* C21: pairing does not depend on the batch size: on a table in which every
\* group has one CREDIT and one DEBIT among the valid rows, with any batch
\* size from 1 on, odd ones included, and no limit, run() raises no error
\* and calls migrate exactly once on the two rows of each group, never on
\* rows of two groups and never on a row whose partner is missing.
PairingIndependentOfBatchSize ==
  (CorrectlyPaired /\ options.limit = 0) => PairsEachGroupOnce

\* What does hold: the same for the batch sizes that are even.
PairingWithEvenBatchSize ==
  (CorrectlyPaired /\ options.limit = 0 /\ options.batchSize % 2 = 0) => PairsEachGroupOnce

====
